---- MODULE Spec2Model ----
(***************************************************************************)
(* Model of priroda's execution controller and breakpoint registry         *)
(* (src/src/step.rs).                                                      *)
(*                                                                         *)
(* The registry is a map from DefId to a set of Breakpoint triples.  The   *)
(* controller (`step`, driven by `step_command`) repeatedly asks the       *)
(* interpreter for one step and decides after each whether to halt.  One   *)
(* iteration of the `loop` of `step` is one action here, because the       *)
(* interpreter step it contains is the only point at which the             *)
(* environment (the interpreter) chooses something.                        *)
(***************************************************************************)
EXTENDS Integers, Sequences, FiniteSets, TLC

\* ------------------------------------------------------------------ bounds

\* Interpreter stack frame limit: a Call at this depth fails.
MaxDepth == 3

\* The longest finite run of the interpreter: successful steps before it
\* reports completion or failure.
MaxRun == 10

\* The count of interpreter steps of one call saturates here.
MaxSteps == 2

\* ------------------------------------------------- the interpreted program

\* The program under debugging: two functions of three basic blocks each.
\* Function 0 is the entry point and loops around a call of function 1;
\* function 1 may call itself.
DefIds == {0, 1}

BasicBlocks == {0, 1, 2}

\* statements[f][b]: one entry per statement of the block, the statement's
\* kind.  Storage markers and no-ops are the statements an operator does
\* not want to single-step over.
statements ==
  ( 0 :> ( 0 :> <<"Assign", "StorageLive">> @@
           1 :> <<"StorageDead">> @@
           2 :> << >> ) @@
    1 :> ( 0 :> <<"StorageLive">> @@
           1 :> <<"Assign">> @@
           2 :> <<"Nop", "Assign">> ) )

\* terminator[f][b]: the block's terminator.
terminator ==
  ( 0 :> ( 0 :> [kind |-> "Call", callee |-> 1, targets |-> {1}] @@
           1 :> [kind |-> "SwitchInt", callee |-> 0, targets |-> {0, 2}] @@
           2 :> [kind |-> "Return", callee |-> 0, targets |-> {}] ) @@
    1 :> ( 0 :> [kind |-> "SwitchInt", callee |-> 0, targets |-> {1, 2}] @@
           1 :> [kind |-> "Call", callee |-> 1, targets |-> {2}] @@
           2 :> [kind |-> "Return", callee |-> 0, targets |-> {}] ) )

\* The longest block, plus the position of the terminator.
StmtIndices == 0..2

\* ::should_hide_stmt: storage markers, validation, region ends and no-ops.
should_hide_stmt(kind) ==
  kind \in {"StorageLive", "StorageDead", "Validate", "EndRegion", "Nop"}

\* ------------------------------------------------------------------ values

None == "None"

Frame(f, b, s) == [def |-> f, block |-> b, stmt |-> s]

\* Breakpoint(DefId, BasicBlock, usize)
Breakpoint(f, b, s) == <<f, b, s>>

\* The breakpoints the registry is exercised with on its own.
Breakpoints == {Breakpoint(f, b, s) : f \in DefIds, b \in {0, 2}, s \in {0, 1}}

\* The breakpoints an operator sets while driving the program: a hidden
\* statement of the entry function, a visible one, a hidden statement at the
\* entry of the callee, and the callee's return position.
SessionBreakpoints ==
  {Breakpoint(0, 1, 0), Breakpoint(0, 0, 1), Breakpoint(1, 0, 0), Breakpoint(1, 2, 2)}

\* The failures the interpreter reports, and how `{:?}` prints them.
EvalErrors == {[kind |-> "StackFrameLimitReached"], [kind |-> "Unreachable"]}

\* format!("{:?}", e)
DebugFormat(e) ==
  CASE e.kind = "StackFrameLimitReached" -> "StackFrameLimitReached"
    [] e.kind = "Unreachable" -> "Unreachable"

NoError == [kind |-> "none"]

\* What one ecx.step() reported: Ok(true), Ok(false) or Err(err).
Outcome(kind, err) == [kind |-> kind, err |-> err]

NoOutcome == Outcome("none", NoError)

Commands == {"step", "next", "return", "continue"}

VARIABLES
  tree,      \* BreakpointTree.0: DefId -> set of Breakpoint (a partial map)
  live,      \* history: breakpoints added and not removed or cleared since
  lastOp,    \* history: the last registry operation and what it returned
  stack,     \* ecx.stack(): the frames, topmost last
  pc,        \* "idle": no command runs; "loop": at the top of step's loop
  cmd,       \* the command of the running (or last) call
  frame0,    \* `frame` captured by next and return (stack depth at the call)
  block0,    \* `block` captured by next
  stmt0,     \* `stmt` captured by next
  message,   \* step's `message`
  nsteps,    \* history: ecx.step() calls of this call (saturating)
  outcome,   \* history: what the last ecx.step() of this call reported
  evald,     \* history: continue_while was called in the last iteration
  halt,      \* history: which `break` ended the call
  remaining, \* the successful steps the interpreter has left (Unlimited: any)
  input,     \* the renderer's argument: a frame, a value, an allocation
  output     \* what the renderer returned for it

vars == <<tree, live, lastOp, stack, pc, cmd, frame0, block0, stmt0, message,
          nsteps, outcome, evald, halt, remaining, input, output>>

regVars == <<tree, live, lastOp>>

ctlVars == <<stack, pc, cmd, frame0, block0, stmt0, message, nsteps, outcome,
             evald, halt, remaining>>

rndVars == <<input, output>>

\* ---------------------------------------------------------------- registry

\* BreakpointTree::new
EmptyTree == << >>

\* enum LocalBreakpoints
NoBp == [tag |-> "NoBp", bps |-> {}]

SomeBps(bps) == [tag |-> "SomeBps", bps |-> bps]

\* Mutant of add_breakpoint: the bucket is keyed by the block, not the function.
add_breakpoint_by_block(t, bp) ==
  IF bp[2] \in DOMAIN t
    THEN [t EXCEPT ![bp[2]] = @ \cup {bp}]
    ELSE t @@ (bp[2] :> {bp})

\* BreakpointTree::add_breakpoint: entry(bp.0).or_insert(new set).insert(bp)
add_breakpoint(t, bp) ==
  IF bp[1] \in DOMAIN t
    THEN [t EXCEPT ![bp[1]] = @ \cup {bp}]
    ELSE t @@ (bp[1] :> {bp})

\* Mutant of remove_breakpoint: reports whether the bucket exists.
remove_breakpoint_reports_bucket(t, bp) ==
  IF bp[1] \in DOMAIN t
    THEN [tree |-> [t EXCEPT ![bp[1]] = @ \ {bp}], ret |-> TRUE]
    ELSE [tree |-> t, ret |-> FALSE]

\* BreakpointTree::remove_breakpoint: the new map and the returned flag.
remove_breakpoint(t, bp) ==
  IF bp[1] \in DOMAIN t
    THEN [tree |-> [t EXCEPT ![bp[1]] = @ \ {bp}], ret |-> bp \in t[bp[1]]]
    ELSE [tree |-> t, ret |-> FALSE]

\* BreakpointTree::remove_all
remove_all(t) == EmptyTree

\* BreakpointTree::for_def_id
for_def_id(t, def_id) ==
  IF def_id \in DOMAIN t THEN SomeBps(t[def_id]) ELSE NoBp

\* Mutant of breakpoint_exists: the statement index is not compared.
breakpoint_exists_block_only(local, bb, stmt) ==
  IF local.tag = "NoBp"
    THEN FALSE
    ELSE \E bp \in local.bps : bp[2] = bb

\* LocalBreakpoints::breakpoint_exists
breakpoint_exists(local, bb, stmt) ==
  IF local.tag = "NoBp"
    THEN FALSE
    ELSE \E bp \in local.bps : bp[2] = bb /\ bp[3] = stmt

\* The registry's answer for a location: the bucket's lookup, then the scan.
contains(t, def_id, bb, stmt) ==
  breakpoint_exists(for_def_id(t, def_id), bb, stmt)

\* BreakpointTree::is_at_breakpoint, on the topmost frame of `st` (ecx.frame()
\* needs one: see frame_panics).
is_at_breakpoint(t, st) ==
  LET frame == st[Len(st)]
  IN contains(t, frame.def, frame.block, frame.stmt)

\* BreakpointTree::iter: how many times the iteration yields `bp`.
iter_count(t, bp) == Cardinality({f \in DOMAIN t : bp \in t[f]})

\* Every breakpoint the iteration yields.
iter_set(t) == UNION {t[f] : f \in DOMAIN t}

\* ------------------------------------------------------------- interpreter

Top(st) == st[Len(st)]

BlockLen(frame) == Len(statements[frame.def][frame.block])

Terminator(frame) == terminator[frame.def][frame.block]

\* The stacks one successful ecx.step() can leave: a statement advances the
\* statement index; a terminator jumps, pushes the callee's frame, or pops
\* the frame and resumes the caller at the target of its call.  The empty
\* set when the step cannot succeed (a call at the frame limit).
Advanced(st) ==
  LET n == Len(st)
      frame == st[n]
      term == Terminator(frame)
  IN IF frame.stmt < BlockLen(frame)
       THEN {[st EXCEPT ![n].stmt = @ + 1]}
     ELSE IF term.kind \in {"Goto", "SwitchInt"}
       THEN {[st EXCEPT ![n] = Frame(frame.def, b, 0)] : b \in term.targets}
     ELSE IF term.kind = "Call"
       THEN IF n >= MaxDepth
              THEN {}
              ELSE {Append(st, Frame(term.callee, 0, 0))}
     ELSE IF n = 1
       THEN {<< >>}
       ELSE {[SubSeq(st, 1, n - 1) EXCEPT
                ![n - 1] = Frame(st[n - 1].def, b, 0)] :
                  b \in Terminator(st[n - 1]).targets}

\* The failures ecx.step() can report on `st`.
Failures(st) ==
  IF Len(st) >= MaxDepth /\ Top(st).stmt >= BlockLen(Top(st))
       /\ Terminator(Top(st)).kind = "Call"
    THEN {[kind |-> "StackFrameLimitReached"]}
    ELSE {[kind |-> "Unreachable"]}

\* ------------------------------------------------------------- controller

\* Mutant of is_ret: the statement index must be strictly past the count.
is_ret_strictly_past(st) ==
  IF Len(st) > 0
    THEN IF Terminator(Top(st)).kind = "Return"
           THEN Top(st).stmt > BlockLen(Top(st))
           ELSE FALSE
    ELSE TRUE

\* is_ret
is_ret(st) ==
  IF Len(st) > 0
    THEN IF Terminator(Top(st)).kind = "Return"
           THEN Top(st).stmt >= BlockLen(Top(st))
           ELSE FALSE
    ELSE TRUE

\* ecx.frame() is stack.last().expect(..): it panics on an empty stack.
frame_panics(st) == Len(st) = 0

\* Mutant of continue_while: next and return do not compare the stack depth.
continue_while_any_depth(c, f0, b0, s0, st) ==
  CASE c = "step" -> "Stop"
    [] c = "next" ->
         IF frame_panics(st) THEN "Panic"
         ELSE IF b0 < Top(st).block \/ s0 < Top(st).stmt
           THEN "Stop" ELSE "Continue"
    [] c = "return" ->
         IF Len(st) > 0 /\ Terminator(Top(st)).kind = "Return"
              /\ Top(st).stmt >= BlockLen(Top(st))
           THEN "Stop" ELSE "Continue"
    [] c = "continue" -> "Continue"

\* Mutant of continue_while: continue's closure is the one of step.
continue_while_continue_stops(c, f0, b0, s0, st) ==
  CASE c = "step" -> "Stop"
    [] c = "next" ->
         IF Len(st) > f0 THEN "Continue"
         ELSE IF frame_panics(st) THEN "Panic"
         ELSE IF b0 < Top(st).block \/ s0 < Top(st).stmt
           THEN "Stop" ELSE "Continue"
    [] c = "return" ->
         IF Len(st) <= f0 /\ Len(st) > 0 /\ Terminator(Top(st)).kind = "Return"
              /\ Top(st).stmt >= BlockLen(Top(st))
           THEN "Stop" ELSE "Continue"
    [] c = "continue" -> "Stop"

\* The closure each command hands to step as continue_while, applied to the
\* interpreter state `st`; f0, b0, s0 are what the command captured.
continue_while(c, f0, b0, s0, st) ==
  CASE c = "step" -> "Stop"
    [] c = "next" ->
         IF Len(st) > f0 THEN "Continue"
         ELSE IF frame_panics(st) THEN "Panic"
         ELSE IF b0 < Top(st).block \/ s0 < Top(st).stmt
           THEN "Stop" ELSE "Continue"
    [] c = "return" ->
         IF Len(st) <= f0 /\ is_ret(st) THEN "Stop" ELSE "Continue"
    [] c = "continue" -> "Continue"

\* Mutant of skip_hidden: no statement is skipped.
skip_hidden_never(t, st) == FALSE

\* Mutant of skip_hidden: a hidden statement is skipped, breakpoint or not.
skip_hidden_ignores_breakpoints(t, st) ==
  IF Len(st) > 0
    THEN LET frame == Top(st)
         IN /\ frame.stmt # BlockLen(frame)
            /\ should_hide_stmt(statements[frame.def][frame.block][frame.stmt + 1])
    ELSE FALSE

\* The first check of the Ok(true) arm: the new location is a statement that
\* should be hidden and no breakpoint is registered on it.
skip_hidden(t, st) ==
  IF Len(st) > 0
    THEN LET frame == Top(st)
         IN /\ frame.stmt # BlockLen(frame)
            /\ should_hide_stmt(statements[frame.def][frame.block][frame.stmt + 1])
            /\ ~is_at_breakpoint(t, st)
    ELSE FALSE

\* The Ok(true) arm of step's match, on the state `st` the step left:
\* which way the iteration ends and whether it called continue_while.
after_step(c, f0, b0, s0, t, st) ==
  IF skip_hidden(t, st)
    THEN [halt |-> "none", evald |-> FALSE]
  ELSE IF continue_while(c, f0, b0, s0, st) = "Stop"
    THEN [halt |-> "predicate", evald |-> TRUE]
  ELSE IF continue_while(c, f0, b0, s0, st) = "Panic" \/ frame_panics(st)
    THEN [halt |-> "panic", evald |-> TRUE]
  ELSE IF is_at_breakpoint(t, st)
    THEN [halt |-> "breakpoint", evald |-> TRUE]
  ELSE [halt |-> "none", evald |-> TRUE]

\* step_command's result for step's `message`: absent becomes the empty string.
unwrap_or_empty(m) == IF m = None THEN "" ELSE m

Finished == "interpretation finished"

Bump(n) == IF n < MaxSteps THEN n + 1 ELSE n

\* ----------------------------------------------------------------- actions

\* No bound on the interpreter's run is known.
Unlimited == -1

\* The renderer has not been called.
NoInput == "none"

NoOutput == "none"

\* A session before its first command.
InitSession ==
  /\ tree = EmptyTree
  /\ live = {}
  /\ lastOp = [op |-> "new", bp |-> Breakpoint(0, 0, 0), ret |-> FALSE]
  /\ stack = <<Frame(0, 0, 0)>>
  /\ pc = "idle"
  /\ cmd = "none"
  /\ frame0 = 0
  /\ block0 = 0
  /\ stmt0 = 0
  /\ message = None
  /\ nsteps = 0
  /\ outcome = NoOutcome
  /\ evald = FALSE
  /\ halt = "none"

Init ==
  /\ InitSession
  /\ remaining = Unlimited
  /\ input = NoInput
  /\ output = NoOutput

AddBreakpoint(bp) ==
  /\ pc = "idle"
  /\ tree' = add_breakpoint(tree, bp)
  /\ live' = live \cup {bp}
  /\ lastOp' = [op |-> "add", bp |-> bp, ret |-> FALSE]
  /\ UNCHANGED <<ctlVars, rndVars>>

RemoveBreakpoint(bp) ==
  /\ pc = "idle"
  /\ tree' = remove_breakpoint(tree, bp).tree
  /\ live' = live \ {bp}
  /\ lastOp' = [op |-> "remove", bp |-> bp, ret |-> remove_breakpoint(tree, bp).ret]
  /\ UNCHANGED <<ctlVars, rndVars>>

RemoveAll ==
  /\ pc = "idle"
  /\ tree' = remove_all(tree)
  /\ live' = {}
  /\ lastOp' = [op |-> "clear", bp |-> Breakpoint(0, 0, 0), ret |-> FALSE]
  /\ UNCHANGED <<ctlVars, rndVars>>

\* step_command up to its call of step: what the command captures.
StepCommand(c) ==
  /\ pc = "idle"
  /\ Len(stack) > 0
  /\ cmd' = c
  /\ frame0' = IF c \in {"next", "return"} THEN Len(stack) ELSE 0
  /\ block0' = IF c = "next" THEN Top(stack).block ELSE 0
  /\ stmt0' = IF c = "next" THEN Top(stack).stmt ELSE 0
  /\ pc' = "loop"
  /\ message' = None
  /\ nsteps' = 0
  /\ outcome' = NoOutcome
  /\ evald' = FALSE
  /\ halt' = "none"
  /\ UNCHANGED <<stack, remaining, regVars, rndVars>>

\* The loop's first check: a finished program is not stepped.
BreakFinished ==
  /\ pc = "loop"
  /\ Len(stack) <= 1 /\ is_ret(stack)
  /\ pc' = "idle"
  /\ halt' = "finished_program"
  /\ evald' = FALSE
  /\ UNCHANGED <<stack, cmd, frame0, block0, stmt0, message, nsteps, outcome,
                 remaining, regVars, rndVars>>

\* ecx.step() returned Ok(true).
StepOkTrue ==
  /\ pc = "loop"
  /\ ~(Len(stack) <= 1 /\ is_ret(stack))
  /\ \E st \in Advanced(stack) :
       LET r == after_step(cmd, frame0, block0, stmt0, tree, st)
       IN /\ stack' = st
          /\ halt' = r.halt
          /\ evald' = r.evald
          /\ pc' = CASE r.halt = "none" -> "loop"
                     [] r.halt = "panic" -> "panicked"
                     [] OTHER -> "idle"
  /\ nsteps' = Bump(nsteps)
  /\ outcome' = Outcome("advanced", NoError)
  /\ remaining # 0
  /\ remaining' = IF remaining > 0 THEN remaining - 1 ELSE remaining
  /\ UNCHANGED <<cmd, frame0, block0, stmt0, message, regVars, rndVars>>

\* ecx.step() returned Ok(false).
StepOkFalse ==
  /\ pc = "loop"
  /\ ~(Len(stack) <= 1 /\ is_ret(stack))
  /\ message' = Finished
  /\ pc' = "idle"
  /\ halt' = "finished"
  /\ evald' = FALSE
  /\ nsteps' = Bump(nsteps)
  /\ outcome' = Outcome("finished", NoError)
  /\ UNCHANGED <<stack, cmd, frame0, block0, stmt0, remaining, regVars, rndVars>>

\* Mutant of StepErr: the failure is dropped and the loop goes on.
StepErr_retry(e) ==
  /\ pc = "loop"
  /\ ~(Len(stack) <= 1 /\ is_ret(stack))
  /\ pc' = "loop"
  /\ halt' = "none"
  /\ evald' = FALSE
  /\ nsteps' = Bump(nsteps)
  /\ outcome' = Outcome("failed", e)
  /\ UNCHANGED <<stack, cmd, frame0, block0, stmt0, message, remaining, regVars,
                 rndVars>>

\* ecx.step() returned Err(e).
StepErr(e) ==
  /\ pc = "loop"
  /\ ~(Len(stack) <= 1 /\ is_ret(stack))
  /\ message' = DebugFormat(e)
  /\ pc' = "idle"
  /\ halt' = "failed"
  /\ evald' = FALSE
  /\ nsteps' = Bump(nsteps)
  /\ outcome' = Outcome("failed", e)
  /\ UNCHANGED <<stack, cmd, frame0, block0, stmt0, remaining, regVars, rndVars>>

Next ==
  \/ \E bp \in SessionBreakpoints : AddBreakpoint(bp)
  \/ \E bp \in SessionBreakpoints : RemoveBreakpoint(bp)
  \/ RemoveAll
  \/ \E c \in Commands : StepCommand(c)
  \/ BreakFinished
  \/ StepOkTrue
  \/ StepOkFalse
  \/ \E e \in Failures(stack) : StepErr(e)

Spec == Init /\ [][Next]_vars

\* The registry on its own, over a cube of breakpoints.
NextRegistry ==
  \/ \E bp \in Breakpoints : AddBreakpoint(bp)
  \/ \E bp \in Breakpoints : RemoveBreakpoint(bp)
  \/ RemoveAll

SpecRegistry == Init /\ [][NextRegistry]_vars

\* One iteration of step's loop.
Loop ==
  \/ BreakFinished
  \/ StepOkTrue
  \/ StepOkFalse
  \/ \E e \in Failures(stack) : StepErr(e)

\* The registry after add_breakpoint was called for each member of bps.
RECURSIVE registry_of(_)
registry_of(bps) ==
  IF bps = {}
    THEN EmptyTree
    ELSE LET bp == CHOOSE x \in bps : TRUE
         IN add_breakpoint(registry_of(bps \ {bp}), bp)

\* A session on a finite run: breakpoints were registered, and the
\* interpreter performs at most `remaining` more successful steps, then
\* reports completion or failure.
InitFiniteRun ==
  /\ \E bps \in SUBSET SessionBreakpoints :
       /\ tree = registry_of(bps)
       /\ live = bps
  /\ lastOp = [op |-> "new", bp |-> Breakpoint(0, 0, 0), ret |-> FALSE]
  /\ stack = <<Frame(0, 0, 0)>>
  /\ pc = "idle"
  /\ cmd = "none"
  /\ frame0 = 0
  /\ block0 = 0
  /\ stmt0 = 0
  /\ message = None
  /\ nsteps = 0
  /\ outcome = NoOutcome
  /\ evald = FALSE
  /\ halt = "none"
  /\ remaining \in 0..MaxRun
  /\ input = NoInput
  /\ output = NoOutput

NextFiniteRun ==
  \/ \E c \in Commands : StepCommand(c)
  \/ Loop

\* step is synchronous code: while a command runs, its loop goes on.
SpecFiniteRun == InitFiniteRun /\ [][NextFiniteRun]_vars /\ WF_vars(Loop)

\* ------------------------------------------------- notions of the claims

\* The topmost frame of `st` is past its block's last statement and the
\* block's terminator is a return.
AtTerminalReturn(st) ==
  /\ Len(st) > 0
  /\ Terminator(Top(st)).kind = "Return"
  /\ Top(st).stmt >= BlockLen(Top(st))

\* The triple of the topmost frame of `st` is stored in the registry `t`.
Registered(t, st) ==
  Breakpoint(Top(st).def, Top(st).block, Top(st).stmt) \in iter_set(t)

\* The topmost frame of `st` is at a statement classified as hidden.
AtHiddenStatement(st) ==
  /\ Top(st).stmt < BlockLen(Top(st))
  /\ statements[Top(st).def][Top(st).block][Top(st).stmt + 1]
       \in {"StorageLive", "StorageDead", "Validate", "EndRegion", "Nop"}

\* This step is an iteration of the loop in which ecx.step() returned Ok(true).
Advancing == pc = "loop" /\ outcome'.kind = "advanced" /\ halt' # "finished_program"

\* This step ends the running call.
Halting == pc = "loop" /\ pc' = "idle"

\* The interpreter never pops the last frame under the controller: the
\* loop's first check stops before the outermost return executes.
StackNeverEmpty == Len(stack) > 0 /\ pc # "panicked"

\* ------------------------------------------------------------------ claims

\* C1: a command invoked on a finished program (depth 1, topmost frame at a
\* Return terminator past the last statement) halts in its first iteration
\* without any interpreter step, leaves the stack unchanged and has no message.
C1_FinishedProgramNotStepped ==
  [][(pc = "loop" /\ outcome = NoOutcome /\ Len(stack) = 1 /\ AtTerminalReturn(stack))
       => /\ pc' = "idle"
          /\ stack' = stack
          /\ nsteps' = 0
          /\ outcome' = NoOutcome
          /\ message' = None
          /\ unwrap_or_empty(message') = ""]_vars

C1_Witness ==
  /\ pc = "idle" /\ cmd = "continue" /\ halt = "finished_program"
  /\ nsteps = 0 /\ outcome = NoOutcome /\ message = None
  /\ Len(stack) = 1 /\ AtTerminalReturn(stack)

\* C2 as stated, on the returns of next after which the interpreter can go
\* on (it reported neither completion nor failure): the stack depth is at
\* most the depth captured at invocation.
C2_NextNeverHaltsDeeper ==
  (pc = "idle" /\ cmd = "next" /\ message = None) => Len(stack) <= frame0

\* C2 amended: when next has returned without a message (the interpreter
\* reported neither completion nor failure) and not because of a registered
\* breakpoint, the stack depth is at most the depth captured at invocation.
C2_NextHaltsDeeperOnlyWhenForced ==
  (pc = "idle" /\ cmd = "next" /\ message = None /\ halt # "breakpoint")
    => Len(stack) <= frame0

C2_Witness ==
  /\ pc = "idle" /\ cmd = "next" /\ halt = "predicate"
  /\ nsteps = MaxSteps /\ Len(stack) = frame0 /\ frame0 = 2

\* C3 as stated, on the returns of return after which the interpreter can go
\* on (it reported neither completion nor failure): the topmost frame is
\* past its last statement, at a Return terminator, at depth at most the
\* captured one.
C3_ReturnHaltsAtReturn ==
  (pc = "idle" /\ cmd = "return" /\ message = None)
    => AtTerminalReturn(stack) /\ Len(stack) <= frame0

\* C3 amended: the same, when return has returned without a message and not
\* because of a registered breakpoint.
C3_ReturnHaltsAtReturnUnlessForced ==
  (pc = "idle" /\ cmd = "return" /\ message = None /\ halt # "breakpoint")
    => AtTerminalReturn(stack) /\ Len(stack) <= frame0

C3_Witness ==
  /\ pc = "idle" /\ cmd = "return" /\ halt = "predicate"
  /\ AtTerminalReturn(stack) /\ Len(stack) = 2 /\ frame0 = 3

\* C4: under the step command, an iteration whose interpreter step succeeded
\* halts (with no message) exactly when the location reached is not a hidden
\* statement or is a registered breakpoint; the stop predicate is evaluated
\* in exactly those iterations; and a halt without message is never at a
\* hidden statement that is not a registered breakpoint.
C4_HiddenStatementsTransparent ==
  [][cmd = "step" =>
       /\ Advancing =>
            LET visible == ~AtHiddenStatement(stack') \/ Registered(tree, stack')
            IN /\ (pc' = "idle") <=> visible
               /\ evald' <=> visible
               /\ message' = None
       /\ (Halting /\ message' = None) =>
            ~(AtHiddenStatement(stack') /\ ~Registered(tree, stack'))]_vars

\* The step command ran through a hidden statement and halted after its
\* second interpreter step.
C4_Witness ==
  /\ pc = "idle" /\ cmd = "step" /\ halt = "predicate" /\ nsteps = 2
  /\ ~Registered(tree, stack)

\* C5: the continue command halts only at a registered breakpoint reached by
\* a successful step, on the interpreter reporting completion or failure, or
\* at the loop's first check on a finished program.
C5_ContinueHaltReasons ==
  [][(cmd = "continue" /\ Halting) =>
       \/ /\ outcome'.kind = "advanced" /\ halt' = "breakpoint"
          /\ message' = None /\ Registered(tree, stack')
       \/ outcome'.kind = "finished" /\ message' = Finished
       \/ outcome'.kind = "failed" /\ message' = DebugFormat(outcome'.err)
       \/ /\ halt' = "finished_program" /\ message' = None /\ stack' = stack
          /\ Len(stack) <= 1 /\ AtTerminalReturn(stack)]_vars

C5_Witness ==
  /\ pc = "idle" /\ cmd = "continue" /\ halt = "breakpoint"
  /\ Len(stack) = 3 /\ nsteps = MaxSteps

\* C6: for every command, an iteration whose interpreter step succeeded and
\* left the topmost frame at a registered triple ends the call, with no
\* message, hidden statement or not.
C6_BreakpointsForceHalt ==
  [][(Advancing /\ Registered(tree, stack')) => (pc' = "idle" /\ message' = None)]_vars

\* continue halted on a breakpoint set on a hidden statement.
C6_Witness ==
  /\ pc = "idle" /\ cmd = "continue" /\ halt = "breakpoint"
  /\ AtHiddenStatement(stack) /\ Registered(tree, stack)

\* C7: a message is present exactly when the last interpreter step of the
\* call reported completion or failure; completion gives "interpretation
\* finished", failure the Debug-formatted error; and a call still running
\* has seen neither (no step is requested after either).
C7_OutcomeMessages ==
  /\ pc = "loop" => (message = None /\ outcome.kind \in {"none", "advanced"})
  /\ pc = "idle" =>
       /\ (message # None) <=> (outcome.kind \in {"finished", "failed"})
       /\ outcome.kind = "finished" => message = "interpretation finished"
       /\ outcome.kind = "failed" =>
            (outcome.err \in EvalErrors /\ message = outcome.err.kind)

C7_Witness ==
  /\ pc = "idle" /\ cmd = "continue" /\ outcome.kind = "failed"
  /\ message = "StackFrameLimitReached" /\ halt = "failed"

\* C8: the registry reports a triple exactly when that triple was added and
\* not removed or cleared since; a triple differing in any field from every
\* such breakpoint is not reported.
C8_ContainsIffAdded ==
  \A f \in DefIds, b \in BasicBlocks, s \in StmtIndices :
    contains(tree, f, b, s) <=> (Breakpoint(f, b, s) \in live)

\* Two breakpoints of one function were added and one of them removed.
C8_Witness ==
  /\ live = {Breakpoint(0, 0, 0)}
  /\ lastOp = [op |-> "remove", bp |-> Breakpoint(0, 0, 1), ret |-> TRUE]
  /\ contains(tree, 0, 0, 0) /\ ~contains(tree, 0, 0, 1)
  /\ ~contains(tree, 1, 0, 0) /\ ~contains(tree, 0, 2, 0)

\* C9: remove returns true exactly when the breakpoint was stored before the
\* call; when it returns false the stored set is unchanged, and when it
\* returns true exactly that breakpoint is gone.
C9_RemoveReportsPresence ==
  [][(lastOp'.op = "remove" /\ (lastOp' # lastOp \/ tree' # tree)) =>
       /\ lastOp'.ret <=> (lastOp'.bp \in iter_set(tree))
       /\ ~lastOp'.ret => iter_set(tree') = iter_set(tree)
       /\ lastOp'.ret => iter_set(tree') = iter_set(tree) \ {lastOp'.bp}]_vars

\* A removal failed on an existing, non-empty bucket that does not hold it.
C9_Witness ==
  /\ lastOp.op = "remove" /\ ~lastOp.ret
  /\ lastOp.bp[1] \in DOMAIN tree
  /\ tree[lastOp.bp[1]] # {}

\* C10: every breakpoint of a bucket carries the bucket's key as its
\* function, no breakpoint is in two buckets, and the iteration yields each
\* stored breakpoint once and nothing else.
C10_BucketInvariant ==
  /\ \A f \in DOMAIN tree : \A bp \in tree[f] : bp[1] = f
  /\ \A bp \in iter_set(tree) : iter_count(tree, bp) = 1
  /\ iter_set(tree) = live

C10_Witness ==
  /\ DOMAIN tree = DefIds
  /\ Cardinality(tree[0]) >= 2 /\ Cardinality(tree[1]) >= 2

\* C20: on a finite run of the interpreter every command halts; once no
\* successful step remains the next iteration ends the call, and no
\* iteration follows one in which the interpreter reported completion or
\* failure.
C20_CommandsHaltOnFiniteRuns ==
  /\ (pc = "loop") ~> (pc = "idle")
  /\ [][(pc = "loop" /\ remaining = 0) => pc' = "idle"]_vars
  /\ [][(pc = "loop" /\ outcome'.kind \in {"finished", "failed"}) => pc' = "idle"]_vars

\* continue, with no breakpoint registered, ran to the end of the run and
\* halted on the interpreter's report.
C20_Witness ==
  /\ pc = "idle" /\ cmd = "continue" /\ tree = EmptyTree /\ live = {}
  /\ remaining = 0 /\ nsteps = MaxSteps
  /\ outcome.kind \in {"finished", "failed"} /\ message # None

\* ------------------------------------------------ render_locals (locals.rs)

\* The most non-return locals of a frame whose slots are varied.
MaxLocals == 2

\* The most locals of one band (arguments, variables, temporaries).
MaxBand == 3

\* The allocation a resolvable pointer points into.
SomeAllocId == 1

\* Option<u64> as a set: None, or Some(id).
NoAlloc == {}

\* What print_operand looks at in an operand: its shape, what its pointer
\* resolves to, and what pp_operand does on it: "ok", "err" or "panic".
Operand(shape, ptr, pretty) == [shape |-> shape, ptr |-> ptr, pretty |-> pretty]

NoOperand == Operand("none", "none", "err")

\* ptr: "alloc" resolves to an allocation, "fn" to a function, "dangling"
\* to neither, "bits" is a scalar that is no pointer.
Operands ==
  {Operand("Scalar", "none", p) : p \in {"ok", "err", "panic"}}
    \cup {Operand("ScalarPair", "none", p) : p \in {"err", "panic"}}
    \cup {Operand("Indirect", "alloc", p) : p \in {"ok", "err"}}
    \cup {Operand("Indirect", k, "err") : k \in {"fn", "dangling", "bits"}}
    \cup {Operand("IndirectMeta", "alloc", "err")}

\* A local's slot (Dead or Live) or the frame's return place (None or
\* Some), with the outcome of evaluating it.
Slot(state, eval, op) == [state |-> state, eval |-> eval, op |-> op]

Slots ==
  {Slot("Dead", "none", NoOperand), Slot("Live", "err", NoOperand)}
    \cup {Slot("Live", "ok", op) : op \in Operands}

ReturnPlaces ==
  {Slot("None", "none", NoOperand), Slot("Some", "err", NoOperand),
   Slot("Some", "ok", Operand("Scalar", "none", "ok"))}

\* top: ecx.frame() is this frame.  locals[id] is the slot of local id >= 1.
RenderFrame(top, ret, locals, nargs, nvars) ==
  [top |-> top, return_place |-> ret, locals |-> locals,
   arg_count |-> nargs, var_count |-> nvars,
   tmp_count |-> Len(locals) - nargs - nvars]

RECURSIVE SeqsOf(_, _)
SeqsOf(S, n) ==
  IF n = 0
    THEN {<< >>}
    ELSE {Append(q, x) : q \in SeqsOf(S, n - 1), x \in S}

\* The ways to split n locals into arguments, variables and temporaries.
Bandings(n) == {b \in (0..n) \X (0..n) : b[1] + b[2] <= n}

\* Frames with every kind of slot.
ValueFrames ==
  {RenderFrame(top, ret, lb[1], lb[2][1], lb[2][2]) :
     top \in BOOLEAN, ret \in ReturnPlaces,
     lb \in UNION {SeqsOf(Slots, n) \X Bandings(n) : n \in 1..MaxLocals}}

\* A frame on entry: its arguments are live, its other locals dead.
EntryLocals(args, n) ==
  [id \in 1..n |-> IF id <= args
                     THEN Slot("Live", "ok", Operand("Scalar", "none", "ok"))
                     ELSE Slot("Dead", "none", NoOperand)]

\* Frames on entry with every size of band.
EntryFrames ==
  {RenderFrame(top, Slot("None", "none", NoOperand),
               EntryLocals(a, a + v + t), a, v) :
     top \in BOOLEAN, a \in 0..MaxBand, v \in 0..MaxBand, t \in 0..MaxBand}

Frames == ValueFrames \cup EntryFrames

\* The text of a table cell: pp_operand's text (if it succeeded) and the
\* raw text.
Text(pretty, raw) == [pretty |-> pretty, raw |-> raw]

Uninit == Text(FALSE, "&lt;uninit&gt;")

ErrorText == Text(FALSE, "&lt;error&gt;")

PtrResult(ok, alloc, txt) == [ok |-> ok, alloc |-> alloc, txt |-> txt]

print_ptr(ptr) ==
  CASE ptr = "bits" -> PtrResult(FALSE, NoAlloc, "")
    [] ptr = "alloc" -> PtrResult(TRUE, {SomeAllocId}, "dump")
    [] ptr = "fn" -> PtrResult(TRUE, NoAlloc, "function pointer")
    [] OTHER -> PtrResult(FALSE, NoAlloc, "")

\* Ok((alloc, txt)), Err(()), or a panic inside pp_operand.
print_operand(op) ==
  LET raw == CASE op.shape = "Indirect" -> print_ptr(op.ptr)
               [] op.shape = "IndirectMeta" -> PtrResult(TRUE, NoAlloc, "place")
               [] op.shape = "Scalar" -> PtrResult(TRUE, NoAlloc, "scalar")
               [] OTHER -> PtrResult(TRUE, NoAlloc, "scalar, scalar")
  IN IF op.pretty = "panic"
       THEN [tag |-> "panic", alloc |-> NoAlloc, text |-> ErrorText]
     ELSE IF raw.ok
       THEN [tag |-> "Ok", alloc |-> raw.alloc,
             text |-> Text(op.pretty = "ok", raw.txt)]
       ELSE [tag |-> "Err", alloc |-> NoAlloc, text |-> ErrorText]

OpTy(tag, op) == [tag |-> tag, op |-> op]

\* Mutant of local_op_ty: live locals are evaluated in every frame.
local_op_ty_any_frame(frame, id) ==
  IF id = 0
    THEN CASE frame.return_place.state = "None" -> OpTy("None", NoOperand)
           [] frame.return_place.eval = "err" -> OpTy("panic", NoOperand)
           [] OTHER -> OpTy("Some", frame.return_place.op)
    ELSE LET slot == frame.locals[id]
         IN CASE slot.state = "Dead" -> OpTy("None", NoOperand)
              [] slot.eval = "err" -> OpTy("panic", NoOperand)
              [] OTHER -> OpTy("Some", slot.op)

\* The closure's op_ty: None, Some(op), or a panic of unwrap().
local_op_ty(frame, id) ==
  IF id = 0
    THEN CASE frame.return_place.state = "None" -> OpTy("None", NoOperand)
           [] frame.return_place.eval = "err" -> OpTy("panic", NoOperand)
           [] OTHER -> OpTy("Some", frame.return_place.op)
    ELSE LET slot == frame.locals[id]
         IN CASE slot.state = "Dead" -> OpTy("None", NoOperand)
              [] ~frame.top -> OpTy("None", NoOperand)
              [] slot.eval = "err" -> OpTy("panic", NoOperand)
              [] OTHER -> OpTy("Some", slot.op)

Label(name, rowspan) == [name |-> name, rowspan |-> rowspan]

NoLabel == Label("", 0)

\* The row's band header cell, if it gets one.
band_label(i, arg_count, var_count, tmp_count) ==
  IF i = 0 THEN Label("Return", 1)
  ELSE IF i = 1 /\ arg_count # 0 THEN Label("Arguments", arg_count)
  ELSE IF i = arg_count + 1 THEN Label("Variables", var_count)
  ELSE IF i = var_count + arg_count + 1 THEN Label("Temporaries", tmp_count)
  ELSE NoLabel

\* The table row of local id, given its op_ty.  printed: the operands
\* print_operand was called with (history).
local_row(frame, id, op_ty) ==
  LET label == band_label(id, frame.arg_count, frame.var_count, frame.tmp_count)
      res == print_operand(op_ty.op)
  IN IF op_ty.tag = "None"
       THEN [label |-> label, alloc |-> NoAlloc, val |-> Uninit,
             style |-> "font-size: 0;", printed |-> {}]
     ELSE IF res.tag = "Ok"
       THEN [label |-> label, alloc |-> res.alloc, val |-> res.text,
             style |-> "", printed |-> {op_ty.op}]
       ELSE [label |-> label, alloc |-> NoAlloc, val |-> ErrorText,
             style |-> "color: red;", printed |-> {op_ty.op}]

\* The closure panics for local id: in an unwrap(), or in print_operand.
closure_panics(frame, id) ==
  LET op_ty == local_op_ty(frame, id)
  IN \/ op_ty.tag = "panic"
     \/ op_ty.tag = "Some" /\ print_operand(op_ty.op).tag = "panic"

\* The locals the closure is run for before one panics (all, if none does).
Completed(frame) ==
  LET n == Len(frame.locals)
      panics == {id \in 0..n : closure_panics(frame, id)}
  IN IF panics = {}
       THEN n + 1
       ELSE CHOOSE id \in panics : \A other \in panics : id <= other

\* panicked: a panic unwound render_locals, which returned nothing.
\* rows: the rows the closure produced, rows[id + 1] for local id.
render_locals(frame) ==
  [panicked |-> Completed(frame) < Len(frame.locals) + 1,
   rows |-> [i \in 1..Completed(frame) |->
               local_row(frame, i - 1, local_op_ty(frame, i - 1))]]

RenderLocals ==
  /\ pc = "idle"
  /\ pc' = "render_locals"
  /\ output' = render_locals(input)
  /\ UNCHANGED <<stack, cmd, frame0, block0, stmt0, message, nsteps, outcome,
                 evald, halt, remaining, regVars, input>>

InitLocals ==
  /\ InitSession
  /\ remaining = Unlimited
  /\ input \in Frames
  /\ output = NoOutput

NextLocals == RenderLocals

SpecLocals == InitLocals /\ [][NextLocals]_vars

\* The render returned a table.
Rendered == pc = "render_locals" /\ ~output.panicked

RowTexts == {Uninit, ErrorText} \cup
  {Text(p, raw) : p \in BOOLEAN,
                  raw \in {"dump", "function pointer", "place", "scalar",
                           "scalar, scalar"}}

\* C11: the frame render never fails outright: whatever fails for a local,
\* render_locals returns a table with exactly one row per declared local,
\* each showing a formatted value, <uninit> or <error>.
C11_RenderNeverFails ==
  pc = "render_locals" =>
    /\ ~output.panicked
    /\ Len(output.rows) = Len(input.locals) + 1
    /\ \A i \in 1..Len(output.rows) : output.rows[i].val \in RowTexts

LabelRows(name) ==
  {i \in 1..Len(output.rows) : output.rows[i].label.name = name}

\* The band `name`, of `count` locals starting at local `first`, is
\* labelled: once, on its first row, spanning its rows, if it has any; not
\* at all, if it has none.
BandLabelled(name, first, count) ==
  IF count = 0
    THEN LabelRows(name) = {}
    ELSE /\ LabelRows(name) = {first + 1}
         /\ output.rows[first + 1].label.rowspan = count

\* C16: the return slot is one row at the top labelled Return, and each of
\* the bands Arguments, Variables, Temporaries that has a row gets exactly
\* one label, on its first row, spanning its count; an empty band gets none.
C16_BandLabels ==
  Rendered =>
    /\ BandLabelled("Return", 0, 1)
    /\ BandLabelled("Arguments", 1, input.arg_count)
    /\ BandLabelled("Variables", 1 + input.arg_count, input.var_count)
    /\ BandLabelled("Temporaries", 1 + input.arg_count + input.var_count,
                    input.tmp_count)

\* -------------------------------------------------- print_alloc (locals.rs)

\* The longest allocation, in bytes.
MaxAllocLen == 3

\* ecx.memory().pointer_size().bytes()
PtrSize == 2

\* Byte values the allocations are filled with.
ByteValues == {0, 171}

HexDigits ==
  <<"0", "1", "2", "3", "4", "5", "6", "7", "8", "9", "a", "b", "c", "d", "e", "f">>

\* format!("{:02x}", b) of a byte.
Hex2(b) == <<HexDigits[(b \div 16) + 1], HexDigits[(b % 16) + 1]>>

\* ub_chars, by code point.
ub_chars ==
  <<"U+2205", "U+2206", "U+2207", "U+2213", "U+221E", "U+2299", "U+22A0",
    "U+2298", "U+2297", "U+229B", "U+229D", "U+22A1", "U+22A0">>

\* bytes[i + 1] is the byte at offset i; relocations: the offsets at which a
\* pointer starts; defined: the offsets the undef mask marks defined.
Allocation(bytes, relocations, defined) ==
  [bytes |-> bytes, relocations |-> relocations, defined |-> defined]

\* Relocations lie inside the allocation and do not overlap.
RelocationSets(len) ==
  {R \in SUBSET (0..(len - 1)) :
     /\ \A o \in R : o + PtrSize <= len
     /\ \A o1, o2 \in R : o1 < o2 => o1 + PtrSize <= o2}

Allocations ==
  UNION {{Allocation(bytes, R, D) :
            bytes \in SeqsOf(ByteValues, len),
            R \in RelocationSets(len),
            D \in SUBSET (0..(len - 1))} : len \in 0..MaxAllocLen}

Pointer(alloc_id, offset) == [alloc_id |-> alloc_id, offset |-> offset]

\* Option<u64> as a set: None, or Some(size).
NoSize == {}

\* Calls of print_alloc on a span inside the allocation.
AllocDumps ==
  UNION {{[ptr |-> Pointer(SomeAllocId, p), alloc |-> a, size |-> sz] :
            p \in 0..Len(a.bytes),
            sz \in {NoSize} \cup {{s} : s \in 0..Len(a.bytes)}} :
         a \in Allocations}

AllocInputs ==
  {d \in AllocDumps :
     \A s \in d.size : d.ptr.offset + s <= Len(d.alloc.bytes)}

\* One write! of print_alloc, made when the scan was at offset `at`.
Token(kind, at, text) == [kind |-> kind, at |-> at, text |-> text]

\* Mutant of scan: a relocation advances the scan by one byte.
RECURSIVE scan_by_one(_, _, _, _, _)
scan_by_one(ptr_size, ptr, alloc, end, i) ==
  IF ~(i < end)
    THEN << >>
  ELSE IF i \in alloc.relocations
    THEN <<Token("ptr", i, <<"/ptr", SomeAllocId, ptr.offset, ptr_size * 2 - 2>>)>>
           \o scan_by_one(ptr_size, ptr, alloc, end, i + 1)
  ELSE IF i \in alloc.defined
    THEN <<Token("hex", i, Hex2(alloc.bytes[i + 1]))>>
           \o scan_by_one(ptr_size, ptr, alloc, end, i + 1)
    ELSE <<Token("undef", i,
                 <<ub_chars[((ptr.alloc_id * 769 + i * 5689) % Len(ub_chars)) + 1],
                   ub_chars[((ptr.alloc_id * 997 + i * 7193) % Len(ub_chars)) + 1]>>)>>
           \o scan_by_one(ptr_size, ptr, alloc, end, i + 1)

\* The while loop of print_alloc from offset i: the tokens it writes.
RECURSIVE scan(_, _, _, _, _)
scan(ptr_size, ptr, alloc, end, i) ==
  IF ~(i < end)
    THEN << >>
  ELSE IF i \in alloc.relocations
    THEN <<Token("ptr", i, <<"/ptr", SomeAllocId, ptr.offset, ptr_size * 2 - 2>>)>>
           \o scan(ptr_size, ptr, alloc, end, i + ptr_size)
  ELSE IF i \in alloc.defined
    THEN <<Token("hex", i, Hex2(alloc.bytes[i + 1]))>>
           \o scan(ptr_size, ptr, alloc, end, i + 1)
    ELSE <<Token("undef", i,
                 <<ub_chars[((ptr.alloc_id * 769 + i * 5689) % Len(ub_chars)) + 1],
                   ub_chars[((ptr.alloc_id * 997 + i * 7193) % Len(ub_chars)) + 1]>>)>>
           \o scan(ptr_size, ptr, alloc, end, i + 1)

print_alloc(ptr_size, ptr, alloc, size) ==
  LET end == IF size = NoSize
               THEN Len(alloc.bytes)
               ELSE (CHOOSE s \in size : TRUE) + ptr.offset
  IN scan(ptr_size, ptr, alloc, end, ptr.offset)

PrintAlloc ==
  /\ pc = "idle"
  /\ pc' = "print_alloc"
  /\ output' = print_alloc(PtrSize, input.ptr, input.alloc, input.size)
  /\ UNCHANGED <<stack, cmd, frame0, block0, stmt0, message, nsteps, outcome,
                 evald, halt, remaining, regVars, input>>

InitAlloc ==
  /\ InitSession
  /\ remaining = Unlimited
  /\ input \in AllocInputs
  /\ output = NoOutput

NextAlloc == PrintAlloc

SpecAlloc == InitAlloc /\ [][NextAlloc]_vars

\* The span of the dump: its first offset and the offset after its last.
SpanStart == input.ptr.offset

SpanEnd ==
  IF input.size = NoSize
    THEN Len(input.alloc.bytes)
    ELSE (CHOOSE s \in input.size : TRUE) + input.ptr.offset

\* The bytes a token stands for.
Cover(tok) == IF tok.kind = "ptr" THEN PtrSize ELSE 1

RECURSIVE SumCover(_)
SumCover(toks) ==
  IF toks = << >> THEN 0 ELSE Cover(Head(toks)) + SumCover(Tail(toks))

\* C13: a span whose bytes are all defined and that holds no relocation is
\* dumped as one two-hex-digit token per byte and nothing else; a relocation
\* at an offset the scan examines gives exactly one pointer token, and the
\* next offset examined is that offset plus the pointer size.
C13_TokenAccounting ==
  pc = "print_alloc" =>
    /\ ( /\ \A i \in SpanStart..(SpanEnd - 1) : i \in input.alloc.defined
         /\ input.alloc.relocations = {} )
       => /\ Len(output) = SpanEnd - SpanStart
          /\ \A k \in 1..Len(output) :
               /\ output[k].kind = "hex"
               /\ output[k].at = SpanStart + k - 1
               /\ Len(output[k].text) = 2
               /\ output[k].text = Hex2(input.alloc.bytes[SpanStart + k])
    /\ \A k \in 1..Len(output) :
         /\ output[k].at \in input.alloc.relocations <=> output[k].kind = "ptr"
         /\ \A j \in 1..Len(output) : output[j].at = output[k].at => j = k
         /\ k < Len(output) => output[k + 1].at = output[k].at + Cover(output[k])

\* A dump over a relocation followed by a defined byte: a pointer token,
\* then the hex token of the byte after the pointer.
C13_Witness ==
  /\ pc = "print_alloc"
  /\ input.alloc.relocations = {0} /\ SpanStart = 0 /\ SpanEnd = PtrSize + 1
  /\ Len(output) = 2
  /\ output[1].kind = "ptr" /\ output[2].kind = "hex" /\ output[2].at = PtrSize

\* C17: the dump of a value of size s at offset p is restricted to the
\* value's bytes: every token stands for bytes of [p, p+s), no byte beyond
\* the allocation is read, and the tokens stand for exactly s bytes.
C17_DumpWithinSpan ==
  (pc = "print_alloc" /\ input.size # NoSize) =>
    /\ \A k \in 1..Len(output) :
         /\ SpanStart <= output[k].at
         /\ output[k].at + Cover(output[k]) <= SpanEnd
         /\ output[k].kind = "hex" => output[k].at < Len(input.alloc.bytes)
    /\ SumCover(output) = SpanEnd - SpanStart

\* C18: no byte of a relocation's range [o, o + pointer size) is dumped as
\* a hex or undefined token of its own, wherever the dump starts.
C18_RelocationBytesNotReported ==
  pc = "print_alloc" =>
    \A k \in 1..Len(output) :
      output[k].kind \in {"hex", "undef"} =>
        \A o \in input.alloc.relocations :
          ~(o <= output[k].at /\ output[k].at < o + PtrSize)

\* --------------------------------------------------- pp_operand (locals.rs)

\* The most fields of a struct or enum variant.
MaxFields == 3

\* usize::MAX of the build, narrowed.
UsizeMax == 15

\* ::std::char::MAX as u128
CharMax == 1114111

\* The largest value of a 16-bit limb of a float's bits.
LimbMax == 65535

\* What pp_operand looks at in an OpTy.
\*   ty: "str" (&str, *const str), "adt", "bool", "char", "uint", "int",
\*       "f32", "f64", "other"
\*   shape: "Scalar", "Undef", "ScalarPair" (immediates), "Indirect"
\*   size, abi_scalar: op_ty.layout.size.bytes(), op_ty.layout.abi
\*   read_ok, is_ptr, bits: ecx.read_scalar(op_ty) and what it reads;
\*       limbs: the bits of a float, most significant 16-bit limb first
\*   resolves, bytes, offset: ecx.memory.get(ptr.alloc_id), its bytes, and
\*       ptr.offset of a ScalarPair's pointer; bits is the pair's length
\*   nvariants, is_enum, disc_ok: adt_def and ecx.read_discriminant(op_ty)
\*   fields: the fields of the active variant, each with the outcome of
\*       ecx.operand_field and the field's OpTy
ScalarOp(ty, size, bits) ==
  [ty |-> ty, shape |-> "Scalar", size |-> size, abi_scalar |-> TRUE,
   read_ok |-> TRUE, is_ptr |-> FALSE, bits |-> bits, limbs |-> << >>,
   resolves |-> FALSE, bytes |-> << >>, offset |-> 0,
   nvariants |-> 0, is_enum |-> FALSE, disc_ok |-> FALSE, fields |-> << >>]

FloatOp(ty, limbs) ==
  [ScalarOp(ty, 2 * Len(limbs), 0) EXCEPT !.limbs = limbs]

StrOp(shape, resolves, bytes, offset, len) ==
  [ScalarOp("str", 2 * 8, len) EXCEPT
     !.shape = shape, !.abi_scalar = FALSE, !.resolves = resolves,
     !.bytes = bytes, !.offset = offset]

Field(resolve, op) == [resolve |-> resolve, op |-> op]

AdtOp(shape, nvariants, disc_ok, fields) ==
  [ScalarOp("adt", 8, 0) EXCEPT
     !.shape = shape, !.abi_scalar = FALSE, !.nvariants = nvariants,
     !.is_enum = nvariants > 1, !.disc_ok = disc_ok, !.fields = fields]

\* Bit patterns of a char: ASCII, other scalar values, surrogates, the
\* values around char::MAX, and beyond.
CharBits ==
  {0, 65, 127, 128, 233, 55295, 55296, 57343, 57344, CharMax - 1, CharMax,
   CharMax + 1}

CharInputs ==
  {ScalarOp("char", 4, b) : b \in CharBits}
    \cup {[ScalarOp("char", 4, 65) EXCEPT !.read_ok = FALSE],
          [ScalarOp("char", 4, 65) EXCEPT !.is_ptr = TRUE],
          [ScalarOp("char", 0, 65) EXCEPT !.abi_scalar = FALSE]}

ScalarInputs ==
  {ScalarOp("bool", 1, b) : b \in 0..2}
    \cup {ScalarOp("uint", 1, b) : b \in {0, 200}}
    \cup {ScalarOp("int", 1, b) : b \in {0, 127, 128, 255}}
    \cup {FloatOp("f32", <<hi, lo>>) : hi, lo \in {0, LimbMax}}
    \cup {FloatOp("f64", <<hi, 0, LimbMax, lo>>) : hi, lo \in {0, LimbMax}}
    \cup {ScalarOp("other", 4, 0), ScalarOp("other", 0, 0)}

StrInputs ==
  {StrOp(shape, resolves, bytes, offset, len) :
     shape \in {"ScalarPair", "Indirect"},
     resolves \in BOOLEAN,
     bytes \in UNION {SeqsOf(ByteValues, n) : n \in 0..MaxAllocLen},
     offset \in 0..(MaxAllocLen + 1),
     len \in (0..(MaxAllocLen + 1)) \cup {UsizeMax}}

\* The fields of the structs and enums: a field that does not resolve,
\* scalars that print, fail or panic, a string, and a nested struct.
FieldOps ==
  {ScalarOp("bool", 1, 1), ScalarOp("bool", 1, 2), ScalarOp("char", 4, 65),
   ScalarOp("char", 4, 55296),
   StrOp("ScalarPair", TRUE, <<0, 171>>, 1, 1),
   AdtOp("Indirect", 1, FALSE, <<Field(TRUE, ScalarOp("uint", 1, 200))>>)}

Fields ==
  {Field(FALSE, ScalarOp("bool", 1, 1))} \cup {Field(TRUE, op) : op \in FieldOps}

AdtInputs ==
  {AdtOp(shape, nv[1], nv[2], fields) :
     shape \in {"Indirect", "Undef"},
     nv \in {<<1, FALSE>>, <<2, TRUE>>, <<2, FALSE>>},
     fields \in UNION {SeqsOf(Fields, n) : n \in 0..MaxFields}}

PpInputs == CharInputs \cup ScalarInputs \cup StrInputs \cup AdtInputs

\* EvalResult<String>, or a panic.  text: the pieces of the string.
PpOk(text) == [tag |-> "Ok", text |-> text]

PpErr == [tag |-> "Err", text |-> << >>]

PpPanic == [tag |-> "panic", text |-> << >>]

\* String::from_utf8_lossy, for bytes that are ASCII or lone continuation
\* bytes: each of the latter becomes U+FFFD.
from_utf8_lossy(bytes) ==
  [i \in 1..Len(bytes) |-> IF bytes[i] < 128 THEN bytes[i] ELSE "U+FFFD"]

\* usize::checked_add
checked_add(a, b) == IF a + b > UsizeMax THEN {} ELSE {a + b}

\* ::miri::sign_extend(bits, size) as i128
sign_extend(bits, size) ==
  IF bits >= 2 ^ (8 * size - 1) THEN bits - 2 ^ (8 * size) ELSE bits

ErrMarker == "<span style='color: red;'>&lt;err&gt;</span>"

\* Lines 240-288: the value as a scalar of its type.
pp_scalar(op) ==
  IF op.size = 0 THEN PpErr
  ELSE IF ~op.abi_scalar THEN PpErr
  ELSE IF ~op.read_ok THEN PpErr
  ELSE IF op.is_ptr THEN PpOk(<<"Pointer">>)
  ELSE IF op.shape = "Undef" THEN PpErr
  ELSE CASE op.ty = "bool" ->
              IF op.bits = 0 THEN PpOk(<<"false">>)
              ELSE IF op.bits = 1 THEN PpOk(<<"true">>)
              ELSE PpErr
         [] op.ty = "char" /\ op.bits < CharMax ->
              IF op.bits \in 55296..57343 THEN PpPanic
              ELSE IF op.bits < 128 THEN PpOk(<<"'", op.bits, "'">>)
              ELSE PpErr
         [] op.ty = "uint" -> PpOk(<<op.bits>>)
         [] op.ty = "int" -> PpOk(<<sign_extend(op.bits, op.size)>>)
         [] op.ty = "f32" ->
              IF \E i \in 1..Len(op.limbs) : op.limbs[i] < LimbMax
                THEN PpOk(<<"f32", op.limbs>>)
                ELSE PpErr
         [] op.ty = "f64" ->
              IF \E i \in 1..Len(op.limbs) : op.limbs[i] < LimbMax
                THEN PpOk(<<"f64", op.limbs>>)
                ELSE PpErr
         [] OTHER -> PpErr

\* Lines 157-176: a string slice, read from the allocation; otherwise on
\* to the scalars.
pp_str(op) ==
  IF op.shape = "ScalarPair" /\ op.resolves /\ op.offset < Len(op.bytes)
    THEN IF checked_add(op.offset, op.bits) = {}
           THEN PpErr
         ELSE IF op.offset + op.bits > Len(op.bytes)
           THEN PpPanic
           ELSE PpOk(<<"\"">>
                       \o from_utf8_lossy(SubSeq(op.bytes, op.offset + 1,
                                                 op.offset + op.bits))
                       \o <<"\"">>)
    ELSE pp_scalar(op)

RECURSIVE pp_operand(_)
RECURSIVE pp_fields(_, _, _)

\* Lines 210-227, from field i on: the text of the fields, or a panic.
pp_fields(fields, i, should_collapse) ==
  IF i > Len(fields)
    THEN PpOk(<< >>)
    ELSE LET field_pretty == IF fields[i].resolve
                               THEN pp_operand(fields[i].op)
                               ELSE PpErr
             rest == pp_fields(fields, i + 1, should_collapse)
         IN IF field_pretty.tag = "panic" \/ rest.tag = "panic"
              THEN PpPanic
              ELSE PpOk(<<i - 1, ": ">>
                          \o (IF field_pretty.tag = "Ok"
                                THEN field_pretty.text
                                ELSE <<ErrMarker>>)
                          \o <<", ">>
                          \o (IF should_collapse THEN <<"<br>">> ELSE << >>)
                          \o rest.text)

\* Lines 177-236: a struct or enum.
pp_adt(op) ==
  IF op.shape = "Undef" THEN PpErr
  ELSE IF op.nvariants # 1 /\ ~op.disc_ok THEN PpErr
  ELSE LET should_collapse == Len(op.fields) > 1
           body == pp_fields(op.fields, 1, should_collapse)
       IN IF body.tag = "panic"
            THEN PpPanic
            ELSE PpOk(<<"path">>
                        \o (IF op.is_enum THEN <<"::", "variant">> ELSE << >>)
                        \o <<" { ">>
                        \o (IF should_collapse THEN <<"<details>">> ELSE << >>)
                        \o body.text
                        \o (IF should_collapse THEN <<"</details>">> ELSE << >>)
                        \o <<"}">>)

pp_operand(op) ==
  CASE op.ty = "str" -> pp_str(op)
    [] op.ty = "adt" -> pp_adt(op)
    [] OTHER -> pp_scalar(op)

PpOperand ==
  /\ pc = "idle"
  /\ pc' = "pp_operand"
  /\ output' = pp_operand(input)
  /\ UNCHANGED <<stack, cmd, frame0, block0, stmt0, message, nsteps, outcome,
                 evald, halt, remaining, regVars, input>>

InitPretty ==
  /\ InitSession
  /\ remaining = Unlimited
  /\ input \in PpInputs
  /\ output = NoOutput

NextPretty == PpOperand

SpecPretty == InitPretty /\ [][NextPretty]_vars

\* The text a field contributes: its own text if it resolves and prints,
\* the error marker otherwise.
FieldContribution(field) ==
  IF field.resolve /\ pp_operand(field.op).tag = "Ok"
    THEN pp_operand(field.op).text
    ELSE <<ErrMarker>>

\* The fields from i on, in declaration order, each followed by a line
\* break when the list is collapsible.
RECURSIVE FieldList(_, _, _)
FieldList(fields, i, collapsible) ==
  IF i > Len(fields)
    THEN << >>
    ELSE <<i - 1, ": ">> \o FieldContribution(fields[i]) \o <<", ">>
           \o (IF collapsible THEN <<"<br>">> ELSE << >>)
           \o FieldList(fields, i + 1, collapsible)

\* The active variant of the struct or enum is determined.
VariantDetermined(op) ==
  /\ op.ty = "adt"
  /\ op.shape # "Undef"
  /\ op.nvariants = 1 \/ op.disc_ok

\* C14: once the active variant is determined, pretty-printing a struct or
\* enum succeeds whatever happens for its fields: each field that fails
\* contributes the <err> marker in its position, the others their text, in
\* declaration order, and the list is wrapped in <details> iff the variant
\* has more than one field.
C14_FieldFailuresContained ==
  (pc = "pp_operand" /\ VariantDetermined(input)) =>
    /\ output.tag = "Ok"
    /\ output.text =
         <<"path">>
           \o (IF input.is_enum THEN <<"::", "variant">> ELSE << >>)
           \o <<" { ">>
           \o (IF Len(input.fields) > 1 THEN <<"<details>">> ELSE << >>)
           \o FieldList(input.fields, 1, Len(input.fields) > 1)
           \o (IF Len(input.fields) > 1 THEN <<"</details>">> ELSE << >>)
           \o <<"}">>

\* C15: pretty-printing a string slice is bounds-safe: it fails when the
\* offset is not inside the allocation or offset + length is beyond its
\* end, and otherwise gives the quoted bytes of [offset, offset + length);
\* it never crashes.
C15_StringBoundsSafe ==
  (pc = "pp_operand" /\ input.ty = "str") =>
    /\ output.tag # "panic"
    /\ (input.shape = "ScalarPair" /\ input.resolves) =>
         IF \/ ~(input.offset < Len(input.bytes))
            \/ input.offset + input.bits > Len(input.bytes)
           THEN output.tag = "Err"
           ELSE output = PpOk(<<"\"">>
                                \o from_utf8_lossy(SubSeq(input.bytes,
                                                          input.offset + 1,
                                                          input.offset + input.bits))
                                \o <<"\"">>)

\* C19: for every bit pattern of a char, pretty-printing gives the quoted
\* character if the bits are ASCII and fails otherwise; it never crashes.
C19_CharNeverCrashes ==
  (pc = "pp_operand" /\ input.ty = "char" /\ input.size # 0
     /\ input.abi_scalar /\ input.read_ok /\ ~input.is_ptr) =>
    IF input.bits < 128
      THEN output = PpOk(<<"'", input.bits, "'">>)
      ELSE output = PpErr

====
